---- MODULE Spec2Model ----
(***************************************************************************)
(* A model of the mark-and-sweep virtual machine of src/src/main.rs.       *)
(*                                                                         *)
(* Every Rc<RefCell<Object>> cell is identified by its allocation number   *)
(* (1, 2, 3, ...); heap[i] is the content of the i-th cell.  A cell stays  *)
(* in `heap` for as long as some Rc points to it; the `next` chain that    *)
(* starts at first_object holds such an Rc to every cell that new_object   *)
(* has linked in.  usize arithmetic is the arithmetic of the test profile  *)
(* (the program's only entry points are its tests; fn main is empty):      *)
(* an overflowing operation panics.  A panic ends the run.                 *)
(***************************************************************************)
EXTENDS Integers, Sequences, FiniteSets, TLC

\* Bounds of the model.
MaxAllocs == 5          \* cells allocated in one run
MaxStackSize == 3       \* largest max_size handed to VM::new
MaxTailSets == 1        \* calls of set_pair_tail that succeed in one run

\* Program constants.
InitMaxObjects == 8     \* VM::new, max_objects: 8

None == 0               \* Option::None for a cell reference
NoGC == None - 1        \* no collection has completed yet (below every count)
NoPanic == "none"
StackOverflow == "Stack overflow"
StackUnderflow == "Stack underflow"
TypeMismatch == "should be a pair"
SubOverflow == "attempt to subtract with overflow"
Values == {1}           \* payloads of Int objects

VARIABLES
    heap,          \* Seq of cells: [tag, value, head, tail, marked, next]
    stack,         \* VM.stack: Seq of cell ids
    max_size,      \* VM.max_size
    first_object,  \* VM.first_object: cell id or None
    max_objects,   \* VM.max_objects
    num_objects,   \* VM.num_objects
    panic,         \* NoPanic, or the message of the panic that ended the run
    op,            \* the last operation: its name, what its collection did, the
                   \* cells reclaimed before it, the operation before it and
                   \* last_n as it was before it
    last_n,        \* live count left by the last completed collection, or NoGC
    reclaimed,     \* cells some sweep has called drop(unreached) on
    tail_sets,     \* successful set_pair_tail calls so far
    pc,            \* position inside a stepwise gc(): "idle", "mark_all", "sweep"
    frames,        \* call stack of VM::mark during a stepwise gc()
    root_i,        \* index of mark_all's iterator over the stack
    cur,           \* sweep's local `obj`
    pre_num        \* gc's local `num_objects`

vars == <<heap, stack, max_size, first_object, max_objects, num_objects,
          panic, op, last_n, reclaimed, tail_sets, pc, frames, root_i, cur, pre_num>>

gcvars == <<pc, frames, root_i, cur, pre_num>>

--------------------------------------------------------------------------
\* Object { obj_type, marked, next }

IntType(v) == [tag |-> "Int", value |-> v, head |-> None, tail |-> None]

PairType(h, t) == [tag |-> "Pair", value |-> 0, head |-> h, tail |-> t]

Object(obj_type, nxt) ==
    [tag |-> obj_type.tag, value |-> obj_type.value, head |-> obj_type.head,
     tail |-> obj_type.tail, marked |-> FALSE, next |-> nxt]

\* What one collection did, kept for the properties.
NoLog == [ran |-> FALSE, completed |-> FALSE, roots |-> <<>>, pre |-> 0,
          post |-> 0, dropped |-> {}, walked |-> <<>>, collected |-> 0]

\* The VM as the methods see it (&mut self), with the panic flag, the value
\* returned by the last call and the log of the collection.
VMState ==
    [heap |-> heap, stack |-> stack, max_size |-> max_size,
     first_object |-> first_object, max_objects |-> max_objects,
     num_objects |-> num_objects, panic |-> NoPanic, ret |-> None,
     log |-> NoLog]

--------------------------------------------------------------------------
\* mark as it would be if the Pair arm forgot the call on the tail.
RECURSIVE mark_head_only(_, _)
mark_head_only(m, obj) ==
    IF m.heap[obj].marked
    THEN m
    ELSE LET m1 == [m EXCEPT !.heap[obj].marked = TRUE]
         IN  IF m1.heap[obj].tag = "Int"
             THEN m1
             ELSE mark_head_only(m1, m1.heap[obj].head)

\* fn mark(obj)
RECURSIVE mark(_, _)
mark(m, obj) ==
    IF m.heap[obj].marked
    THEN m
    ELSE LET m1 == [m EXCEPT !.heap[obj].marked = TRUE]
         IN  IF m1.heap[obj].tag = "Int"
             THEN m1
             ELSE mark(mark(m1, m1.heap[obj].head), m1.heap[obj].tail)

\* fn mark_all(&mut self): for obj in self.stack.iter_mut()
RECURSIVE mark_from(_, _)
mark_from(m, i) ==
    IF i > Len(m.stack) THEN m ELSE mark_from(mark(m, m.stack[i]), i + 1)

mark_all(m) == mark_from(m, 1)

\* sweep's loop as it would be if the marked arm forgot to clear the bit.
RECURSIVE sweep_loop_no_reset(_, _)
sweep_loop_no_reset(m, obj) ==
    IF obj = None
    THEN m
    ELSE IF ~m.heap[obj].marked
         THEN IF m.num_objects = 0
              THEN [m EXCEPT !.panic = SubOverflow,
                             !.log.walked = Append(@, obj)]
              ELSE sweep_loop_no_reset([m EXCEPT !.num_objects = @ - 1,
                                                 !.log.dropped = @ \cup {obj},
                                                 !.log.walked = Append(@, obj)],
                                       m.heap[obj].next)
         ELSE sweep_loop_no_reset([m EXCEPT !.log.walked = Append(@, obj)],
                                  m.heap[obj].next)

\* fn sweep(&mut self): the while-let loop, `obj` being the loop variable
RECURSIVE sweep_loop(_, _)
sweep_loop(m, obj) ==
    IF obj = None
    THEN m
    ELSE IF ~m.heap[obj].marked
         THEN IF m.num_objects = 0
              THEN [m EXCEPT !.panic = SubOverflow,
                             !.log.walked = Append(@, obj)]
              ELSE sweep_loop([m EXCEPT !.num_objects = @ - 1,
                                        !.log.dropped = @ \cup {obj},
                                        !.log.walked = Append(@, obj)],
                              m.heap[obj].next)
         ELSE sweep_loop([m EXCEPT !.heap[obj].marked = FALSE,
                                   !.log.walked = Append(@, obj)],
                         m.heap[obj].next)

sweep(m) == sweep_loop(m, m.first_object)

\* gc as it would be if the threshold were computed from the count recorded
\* before the collection (the local num_objects) instead of self.num_objects.
gc_stale_threshold(m) ==
    LET num == m.num_objects
        m0 == [m EXCEPT !.log = [NoLog EXCEPT !.ran = TRUE, !.roots = m.stack,
                                              !.pre = num]]
        m1 == mark_all(m0)
        m2 == sweep(m1)
    IN  IF m2.panic # NoPanic
        THEN m2
        ELSE [m2 EXCEPT !.max_objects = num * 2,
                        !.log.completed = TRUE,
                        !.log.post = m2.num_objects,
                        !.log.collected = num - m2.num_objects]

\* gc as it would be if the threshold were the live count, not twice it.
gc_no_doubling(m) ==
    LET num == m.num_objects
        m0 == [m EXCEPT !.log = [NoLog EXCEPT !.ran = TRUE, !.roots = m.stack,
                                              !.pre = num]]
        m1 == mark_all(m0)
        m2 == sweep(m1)
    IN  IF m2.panic # NoPanic
        THEN m2
        ELSE [m2 EXCEPT !.max_objects = m2.num_objects,
                        !.log.completed = TRUE,
                        !.log.post = m2.num_objects,
                        !.log.collected = num - m2.num_objects]

\* pub fn gc(&mut self)
gc(m) ==
    LET num == m.num_objects
        m0 == [m EXCEPT !.log = [NoLog EXCEPT !.ran = TRUE, !.roots = m.stack,
                                              !.pre = num]]
        m1 == mark_all(m0)
        m2 == sweep(m1)
    IN  IF m2.panic # NoPanic
        THEN m2
        ELSE [m2 EXCEPT !.max_objects = m2.num_objects * 2,
                        !.log.completed = TRUE,
                        !.log.post = m2.num_objects,
                        !.log.collected = num - m2.num_objects]

\* fn push(&mut self, obj)
push(m, obj) ==
    IF Len(m.stack) >= m.max_size
    THEN [m EXCEPT !.panic = StackOverflow]
    ELSE [m EXCEPT !.stack = Append(@, obj)]

\* pop as it would be without the is_empty test, an empty stack yielding None.
pop_no_check(m) ==
    IF m.panic # NoPanic
    THEN m
    ELSE IF Len(m.stack) = 0
         THEN [m EXCEPT !.ret = None]
         ELSE [m EXCEPT !.stack = SubSeq(@, 1, Len(@) - 1),
                        !.ret = m.stack[Len(m.stack)]]

\* fn pop(&mut self) -> Rc<RefCell<Object>>
pop(m) ==
    IF m.panic # NoPanic
    THEN m
    ELSE IF Len(m.stack) = 0
         THEN [m EXCEPT !.panic = StackUnderflow]
         ELSE [m EXCEPT !.stack = SubSeq(@, 1, Len(@) - 1),
                        !.ret = m.stack[Len(m.stack)]]

\* new_object as it would be with > in place of >= in the threshold test.
new_object_gt(m, obj_type) ==
    IF m.panic # NoPanic
    THEN m
    ELSE LET m1 == IF m.num_objects > m.max_objects THEN gc(m) ELSE m
         IN  IF m1.panic # NoPanic
             THEN m1
             ELSE LET obj == Len(m1.heap) + 1
                      m2 == push(m1, obj)
                  IN  IF m2.panic # NoPanic
                      THEN m2
                      ELSE [m2 EXCEPT
                               !.heap = Append(@, Object(obj_type, m1.first_object)),
                               !.num_objects = @ + 1,
                               !.first_object = obj,
                               !.ret = obj]

\* new_object as it would be if the cell were registered before the push.
new_object_link_first(m, obj_type) ==
    IF m.panic # NoPanic
    THEN m
    ELSE LET m1 == IF m.num_objects >= m.max_objects THEN gc(m) ELSE m
         IN  IF m1.panic # NoPanic
             THEN m1
             ELSE LET obj == Len(m1.heap) + 1
                      m2 == [m1 EXCEPT
                               !.heap = Append(@, Object(obj_type, m1.first_object)),
                               !.num_objects = @ + 1,
                               !.first_object = obj,
                               !.ret = obj]
                  IN  push(m2, obj)

\* new_object as it would be if the new cell's next were left None.
new_object_no_link(m, obj_type) ==
    IF m.panic # NoPanic
    THEN m
    ELSE LET m1 == IF m.num_objects >= m.max_objects THEN gc(m) ELSE m
         IN  IF m1.panic # NoPanic
             THEN m1
             ELSE LET obj == Len(m1.heap) + 1
                      m2 == push(m1, obj)
                  IN  IF m2.panic # NoPanic
                      THEN m2
                      ELSE [m2 EXCEPT
                               !.heap = Append(@, Object(obj_type, None)),
                               !.num_objects = @ + 1,
                               !.first_object = obj,
                               !.ret = obj]

\* fn new_object(&mut self, obj_type) -> Rc<RefCell<Object>>
new_object(m, obj_type) ==
    IF m.panic # NoPanic
    THEN m
    ELSE LET m1 == IF m.num_objects >= m.max_objects THEN gc(m) ELSE m
         IN  IF m1.panic # NoPanic
             THEN m1
             ELSE LET obj == Len(m1.heap) + 1
                      m2 == push(m1, obj)
                  IN  IF m2.panic # NoPanic
                      THEN m2    \* the new cell is dropped by the unwinding
                      ELSE [m2 EXCEPT
                               !.heap = Append(@, Object(obj_type, m1.first_object)),
                               !.num_objects = @ + 1,
                               !.first_object = obj,
                               !.ret = obj]

\* pub fn push_int(&mut self, value)
push_int(m, value) == new_object(m, IntType(value))

\* pub fn push_pair(&mut self)
push_pair(m) ==
    LET m1 == pop(m)
        m2 == pop(m1)
    IN  new_object(m2, PairType(m2.ret, m1.ret))

\* set_pair_tail as it would be if the Pair arm assigned pair.head.
set_pair_tail_head(m, obj, new_tail) ==
    IF m.heap[obj].tag = "Pair"
    THEN [m EXCEPT !.heap[obj].head = new_tail]
    ELSE [m EXCEPT !.panic = TypeMismatch]

\* pub fn set_pair_tail(obj, new_tail)
set_pair_tail(m, obj, new_tail) ==
    IF m.heap[obj].tag = "Pair"
    THEN [m EXCEPT !.heap[obj].tail = new_tail]
    ELSE [m EXCEPT !.panic = TypeMismatch]

--------------------------------------------------------------------------
\* VM::new(max_size)
Init ==
    /\ heap = <<>>
    /\ stack = <<>>
    /\ max_size \in 1..MaxStackSize
    /\ first_object = None
    /\ max_objects = InitMaxObjects
    /\ num_objects = 0
    /\ panic = NoPanic
    /\ op = [name |-> "new", log |-> NoLog, stale |-> {}, prev |-> "none",
             before_n |-> NoGC]
    /\ last_n = NoGC
    /\ reclaimed = {}
    /\ tail_sets = 0
    /\ pc = "idle"
    /\ frames = <<>>
    /\ root_i = 0
    /\ cur = None
    /\ pre_num = 0

\* The state a call leaves behind.
Commit(m, name) ==
    /\ heap' = m.heap
    /\ stack' = m.stack
    /\ first_object' = m.first_object
    /\ max_objects' = m.max_objects
    /\ num_objects' = m.num_objects
    /\ panic' = m.panic
    /\ op' = [name |-> name, log |-> m.log, stale |-> reclaimed,
              prev |-> op.name, before_n |-> last_n]
    /\ last_n' = IF m.log.completed THEN m.log.post ELSE last_n
    /\ reclaimed' = reclaimed \cup m.log.dropped
    /\ UNCHANGED max_size

Running == panic = NoPanic /\ pc = "idle"

\* Allocation is bounded by MaxAllocs, except in a run that has seen neither a
\* collection nor a set_pair_tail: there it goes on until the first forced
\* collection (the fresh threshold) has happened.
CanAlloc == Len(heap) < MaxAllocs \/ (last_n = NoGC /\ tail_sets = 0)

PushInt ==
    /\ Running
    /\ CanAlloc
    /\ \E v \in Values : Commit(push_int(VMState, v), "push_int")
    /\ UNCHANGED <<tail_sets, gcvars>>

PushPair ==
    /\ Running
    /\ CanAlloc
    /\ Commit(push_pair(VMState), "push_pair")
    /\ UNCHANGED <<tail_sets, gcvars>>

Pop ==
    /\ Running
    /\ Commit(pop(VMState), "pop")
    /\ UNCHANGED <<tail_sets, gcvars>>

\* The client holds the Rc handles that push_int, push_pair and pop returned.
SetPairTail ==
    /\ Running
    /\ tail_sets < MaxTailSets
    /\ Len(heap) <= MaxAllocs
    /\ \E obj \in 1..Len(heap), new_tail \in 1..Len(heap) :
          Commit(set_pair_tail(VMState, obj, new_tail), "set_pair_tail")
    /\ tail_sets' = IF panic' = NoPanic THEN tail_sets + 1 ELSE tail_sets
    /\ UNCHANGED gcvars

Gc ==
    /\ Running
    /\ Commit(gc(VMState), "gc")
    /\ UNCHANGED <<tail_sets, gcvars>>

Next == PushInt \/ PushPair \/ Pop \/ SetPairTail \/ Gc

Spec == Init /\ [][Next]_vars

--------------------------------------------------------------------------
\* gc() one step at a time: the call stack of the recursive mark, the
\* iterator of mark_all and the loop variable of sweep are state.  A frame
\* [obj, at] is a call mark(obj) that resumes at source line `at`.

Frame(obj, at) == [obj |-> obj, at |-> at]

Top == frames[Len(frames)]

Return == SubSeq(frames, 1, Len(frames) - 1)

InGc == panic = NoPanic /\ pc # "idle"

\* gc, lines 58-60: record the count and enter mark_all
GcBegin ==
    /\ Running
    /\ pc' = "mark_all"
    /\ pre_num' = num_objects
    /\ root_i' = 1
    /\ frames' = <<>>
    /\ cur' = None
    /\ op' = [name |-> "gc",
              log |-> [NoLog EXCEPT !.ran = TRUE, !.roots = stack,
                                    !.pre = num_objects],
              stale |-> reclaimed, prev |-> op.name, before_n |-> last_n]
    /\ UNCHANGED <<heap, stack, max_size, first_object, max_objects,
                   num_objects, panic, last_n, reclaimed, tail_sets>>

\* mark_all, lines 121-123: the next root, or on to sweep (line 127)
MarkAllStep ==
    /\ InGc /\ pc = "mark_all" /\ frames = <<>>
    /\ IF root_i <= Len(stack)
       THEN /\ frames' = <<Frame(stack[root_i], 73)>>
            /\ root_i' = root_i + 1
            /\ UNCHANGED <<pc, cur>>
       ELSE /\ pc' = "sweep"
            /\ cur' = first_object
            /\ UNCHANGED <<frames, root_i>>
    /\ UNCHANGED <<heap, stack, max_size, first_object, max_objects,
                   num_objects, panic, op, last_n, reclaimed, tail_sets, pre_num>>

\* MarkCall as it would be without the marked test of lines 73-75.
MarkCallNoTest ==
    /\ InGc /\ pc = "mark_all" /\ frames # <<>> /\ Top.at = 73
    /\ LET obj == Top.obj
       IN  /\ heap' = [heap EXCEPT ![obj].marked = TRUE]
           /\ frames' = IF heap[obj].tag = "Int"
                        THEN Return
                        ELSE Append([frames EXCEPT ![Len(frames)].at = 83],
                                    Frame(heap[obj].head, 73))
    /\ UNCHANGED <<stack, max_size, first_object, max_objects, num_objects,
                   panic, op, last_n, reclaimed, tail_sets, pc, root_i, cur,
                   pre_num>>

\* mark, lines 73-82: the marked test, the marking, the call on head
MarkCall ==
    /\ InGc /\ pc = "mark_all" /\ frames # <<>> /\ Top.at = 73
    /\ LET obj == Top.obj
       IN  IF heap[obj].marked
           THEN /\ frames' = Return
                /\ heap' = heap
           ELSE /\ heap' = [heap EXCEPT ![obj].marked = TRUE]
                /\ frames' = IF heap[obj].tag = "Int"
                             THEN Return
                             ELSE Append([frames EXCEPT ![Len(frames)].at = 83],
                                         Frame(heap[obj].head, 73))
    /\ UNCHANGED <<stack, max_size, first_object, max_objects, num_objects,
                   panic, op, last_n, reclaimed, tail_sets, pc, root_i, cur, pre_num>>

\* MarkTail as it would be if mark returned after the call on head.
MarkTailSkip ==
    /\ InGc /\ pc = "mark_all" /\ frames # <<>> /\ Top.at = 83
    /\ frames' = Return
    /\ UNCHANGED <<heap, stack, max_size, first_object, max_objects,
                   num_objects, panic, op, last_n, reclaimed, tail_sets, pc, root_i, cur,
                   pre_num>>

\* mark, line 83: the call on tail, once the call on head has returned
MarkTail ==
    /\ InGc /\ pc = "mark_all" /\ frames # <<>> /\ Top.at = 83
    /\ frames' = Append([frames EXCEPT ![Len(frames)].at = 85],
                        Frame(heap[Top.obj].tail, 73))
    /\ UNCHANGED <<heap, stack, max_size, first_object, max_objects,
                   num_objects, panic, op, last_n, reclaimed, tail_sets, pc, root_i, cur,
                   pre_num>>

\* mark, lines 84-86: return to the caller
MarkReturn ==
    /\ InGc /\ pc = "mark_all" /\ frames # <<>> /\ Top.at = 85
    /\ frames' = Return
    /\ UNCHANGED <<heap, stack, max_size, first_object, max_objects,
                   num_objects, panic, op, last_n, reclaimed, tail_sets, pc, root_i, cur,
                   pre_num>>

\* sweep, lines 129-141: one iteration of the while-let loop
SweepStep ==
    /\ InGc /\ pc = "sweep" /\ cur # None
    /\ IF ~heap[cur].marked
       THEN IF num_objects = 0
            THEN /\ panic' = SubOverflow
                 /\ op' = [op EXCEPT !.log.walked = Append(@, cur)]
                 /\ UNCHANGED <<heap, num_objects, cur, reclaimed>>
            ELSE /\ cur' = heap[cur].next
                 /\ num_objects' = num_objects - 1
                 /\ op' = [op EXCEPT !.log.dropped = @ \cup {cur},
                                     !.log.walked = Append(@, cur)]
                 /\ reclaimed' = reclaimed \cup {cur}
                 /\ UNCHANGED <<heap, panic>>
       ELSE /\ heap' = [heap EXCEPT ![cur].marked = FALSE]
            /\ cur' = heap[cur].next
            /\ op' = [op EXCEPT !.log.walked = Append(@, cur)]
            /\ UNCHANGED <<num_objects, panic, reclaimed>>
    /\ UNCHANGED <<stack, max_size, first_object, max_objects, last_n,
                   tail_sets, pc, frames, root_i, pre_num>>

\* gc, lines 63-69: the new threshold and the summary line
GcEnd ==
    /\ InGc /\ pc = "sweep" /\ cur = None
    /\ max_objects' = num_objects * 2
    /\ op' = [op EXCEPT !.log.completed = TRUE, !.log.post = num_objects,
                        !.log.collected = pre_num - num_objects]
    /\ last_n' = num_objects
    /\ pc' = "idle"
    /\ UNCHANGED <<heap, stack, max_size, first_object, num_objects, panic,
                   reclaimed, tail_sets, frames, root_i, cur, pre_num>>

GcStep == MarkAllStep \/ MarkCall \/ MarkTail \/ MarkReturn \/ SweepStep \/ GcEnd

\* The stepwise runs allocate one cell less than MaxAllocs.
SmallHeap == Len(heap) < MaxAllocs - 1

NextGC ==
    \/ (SmallHeap /\ PushInt) \/ (SmallHeap /\ PushPair) \/ Pop \/ SetPairTail
    \/ GcBegin \/ MarkAllStep \/ MarkCall \/ MarkTail \/ MarkReturn
    \/ SweepStep \/ GcEnd

\* gc() runs to its end once called: nothing else runs in between.
SpecGC == Init /\ [][NextGC]_vars /\ WF_vars(GcStep)

--------------------------------------------------------------------------
\* Reachability, defined on the graph and not by the collector's traversal.

Succ(h, o) == IF h[o].tag = "Pair" THEN {h[o].head, h[o].tail} ELSE {}

RECURSIVE Closure(_, _)
Closure(h, S) ==
    LET T == S \cup UNION {Succ(h, o) : o \in S}
    IN  IF T = S THEN S ELSE Closure(h, T)

Reachable(h, roots) == Closure(h, {roots[i] : i \in DOMAIN roots})

OnCycle(h, o) == o \in Closure(h, Succ(h, o))

\* A collection changes no head or tail edge, and the cell allocated after it
\* has no incoming edge: the set reachable from the roots the collection
\* started with is the same before and after the operation.
ReachAtStart == Reachable(heap, op.log.roots)

IsAlloc(name) == name \in {"push_int", "push_pair"}

--------------------------------------------------------------------------
\* C1: a collection (explicit or forced by an allocation) never reclaims a
\* cell that was on the Root Set or reachable from it when it started: sweep
\* decrements the live count for no such cell.
ReachablePreserved ==
    op.log.ran => op.log.dropped \cap ReachAtStart = {}

\* C1 witness: a collection that reclaimed something while a cell reachable
\* only through a Pair's tail edge survived.
ReachablePreservedWitness ==
    /\ op.log.ran /\ op.log.completed
    /\ op.log.dropped # {}
    /\ \E p \in ReachAtStart :
          /\ heap[p].tag = "Pair"
          /\ heap[p].tail # heap[p].head
          /\ heap[p].tail \notin {op.log.roots[i] : i \in DOMAIN op.log.roots}
          /\ heap[p].tail \notin Reachable(heap, <<heap[p].head>>)

\* C2: after any collection the live count equals the number of cells that
\* were reachable from the Root Set when the collection started.
LiveCountIsReachableCount ==
    op.log.completed => op.log.post = Cardinality(ReachAtStart)

\* C3: one collection reclaims every member of a cycle that no root reaches
\* (every member that no earlier collection has reclaimed already) and no
\* member of a cycle that a root reaches.
CycleSafety ==
    op.log.ran =>
        \A o \in 1..Len(heap) :
            OnCycle(heap, o) =>
                IF o \in ReachAtStart
                THEN o \notin op.log.dropped
                ELSE o \in op.stale \/ o \in op.log.dropped

\* C4: every call of gc() comes to an end (it returns, or it panics), whatever
\* cycles, self-loops and shared cells the graph has, and a call of mark on a
\* cell that is already marked returns at once: it changes nothing and calls
\* mark on neither child.
AtMarkedCall ==
    /\ InGc /\ pc = "mark_all" /\ frames # <<>>
    /\ Top.at = 73 /\ heap[Top.obj].marked

GcTerminates ==
    /\ [][AtMarkedCall => (heap' = heap /\ frames' = Return)]_vars
    /\ (pc # "idle") ~> (pc = "idle" \/ panic # NoPanic)

\* C4 witness: the traversal has come back, around a cycle, to a cell whose
\* own call of mark is still on the call stack.
GcTerminatesWitness ==
    /\ AtMarkedCall
    /\ \E i \in 1..(Len(frames) - 1) : frames[i].obj = Top.obj

\* C5: a collection never fails: the decrement in sweep never takes the live
\* count below zero and the reported number of reclaimed cells is never
\* negative.
CollectionNeverFails ==
    /\ panic # SubOverflow
    /\ num_objects >= 0
    /\ op.log.completed => op.log.collected >= 0

\* C6: between operations, before the first collection and after every
\* completed one, every cell of the registry has marked = false.
MarkBitsReset ==
    (pc = "idle" /\ panic # SubOverflow) =>
        \A o \in 1..Len(heap) : ~heap[o].marked

\* C6 witness: a second collection has completed and cells have survived
\* it, after an earlier collection that reclaimed something.
MarkBitsResetWitness ==
    /\ op.log.completed
    /\ op.stale # {}
    /\ Cardinality(ReachAtStart) >= 2

\* C7: a gc() right after a completed gc() reclaims nothing and leaves the
\* live count, the registry and the threshold as they were.
GcIdempotent ==
    [][(op.name = "gc" /\ op.log.completed /\ op'.name = "gc") =>
          /\ panic' = NoPanic
          /\ op'.log.dropped = {}
          /\ num_objects' = num_objects
          /\ max_objects' = max_objects
          /\ first_object' = first_object
          /\ heap' = heap]_vars

\* C8: after a completed collection that leaves N live cells the threshold is
\* exactly 2N, and an allocation forces a collection only once the live count
\* has reached 2N, N being what the last completed collection left.
ThresholdDoubling ==
    /\ last_n # NoGC => max_objects = 2 * last_n
    /\ op.log.completed => max_objects = 2 * op.log.post
    /\ (IsAlloc(op.name) /\ op.log.ran /\ op.before_n # NoGC) =>
           op.log.pre >= 2 * op.before_n

\* C8 witness: an allocation forced a collection at the threshold that an
\* earlier collection, which left at least one cell, had set.
ThresholdDoublingWitness ==
    /\ IsAlloc(op.name) /\ op.log.ran /\ op.log.completed
    /\ op.before_n >= 1
    /\ op.log.pre = 2 * op.before_n

\* C9 as stated: the allocation that immediately follows a completed
\* collection forces no collection, whatever live count the collection left.
NoBackToBack ==
    (IsAlloc(op.name) /\ op.prev = "gc") => ~op.log.ran

\* C9 as amended: the allocation that immediately follows a completed
\* collection that left at least one live cell forces no collection.
NoBackToBackPositive ==
    (IsAlloc(op.name) /\ op.prev = "gc" /\ op.before_n >= 1) => ~op.log.ran

\* C9 witness: a cell was allocated right after a collection that left a
\* positive live count.
NoBackToBackWitness ==
    /\ IsAlloc(op.name) /\ op.prev = "gc" /\ op.before_n >= 1
    /\ panic = NoPanic
    /\ num_objects = op.before_n + 1

\* C10: push_int and push_pair test the live count before they create the
\* cell; a collection is part of the allocation iff num_objects >= max_objects
\* at that test; max_objects is 8 until the first collection, whatever
\* max_size is; a forced collection has completed before the cell is created
\* and has not walked over it.
AllocationTrigger ==
    /\ [][IsAlloc(op'.name) =>
             (op'.log.ran <=>
                 /\ op'.name = "push_pair" => Len(stack) >= 2
                 /\ num_objects >= max_objects)]_vars
    /\ [](last_n = NoGC => max_objects = InitMaxObjects)
    /\ []((IsAlloc(op.name) /\ op.log.ran /\ panic = NoPanic) =>
            /\ op.log.completed
            /\ first_object = Len(heap)
            /\ \A i \in DOMAIN op.log.walked : op.log.walked[i] # Len(heap))

\* C10 witness: the first collection of a fresh VM, forced by the allocation
\* made at a live count of 8, after which the cell was created.
AllocationTriggerWitness ==
    /\ IsAlloc(op.name) /\ op.log.ran /\ op.log.completed
    /\ panic = NoPanic
    /\ op.before_n = NoGC
    /\ op.log.pre = InitMaxObjects
    /\ num_objects = op.log.post + 1

\* C11: on a Root Set of at least two entries push_pair creates a Pair whose
\* tail is the entry that was on top and whose head is the entry below it,
\* removes both and pushes only the new Pair: the Root Set is one entry
\* shorter and the deeper entries are unchanged.
PushPairEffect ==
    [][(op'.name = "push_pair" /\ Len(stack) >= 2) =>
          LET n == Len(stack)
              new == Len(heap) + 1
          IN  /\ panic' = NoPanic
              /\ Len(heap') = new
              /\ heap'[new].tag = "Pair"
              /\ heap'[new].tail = stack[n]
              /\ heap'[new].head = stack[n - 1]
              /\ stack' = Append(SubSeq(stack, 1, n - 2), new)]_vars

\* C12: the Root Set never holds more than max_size entries, and a push_int
\* on a Root Set that holds max_size entries fails with StackOverflow and
\* leaves the Root Set as it was.
RootSetBound ==
    /\ [](Len(stack) <= max_size)
    /\ [][(op'.name = "push_int" /\ Len(stack) >= max_size) =>
             (panic' = StackOverflow /\ stack' = stack)]_vars

\* C13: pop on an empty Root Set and push_pair on a Root Set of fewer than two
\* entries fail with StackUnderflow; the failing push_pair allocates no cell
\* and forces no collection: live count, registry and threshold are unchanged.
UnderflowFails ==
    /\ [][(op'.name = "pop" /\ Len(stack) = 0) =>
             panic' = StackUnderflow]_vars
    /\ [][(op'.name = "push_pair" /\ Len(stack) < 2) =>
             /\ panic' = StackUnderflow
             /\ ~op'.log.ran
             /\ heap' = heap
             /\ first_object' = first_object
             /\ num_objects' = num_objects
             /\ max_objects' = max_objects]_vars

\* C13 witness: push_pair has failed with StackUnderflow in a state where the
\* live count had reached the threshold, so that an allocation would have
\* forced a collection.
UnderflowFailsWitness ==
    /\ op.name = "push_pair" /\ panic = StackUnderflow
    /\ stack = <<>>
    /\ ~op.log.ran
    /\ Len(heap) >= 1
    /\ num_objects >= max_objects

\* C14: set_pair_tail on a Pair replaces that cell's tail edge and nothing
\* else (head, mark bits, registry, Root Set, live count and threshold are
\* unchanged); on an Int it fails with TypeMismatch and changes nothing.
SetPairTailFrame ==
    [][op'.name = "set_pair_tail" =>
          /\ \E obj \in 1..Len(heap), new_tail \in 1..Len(heap) :
                IF heap[obj].tag = "Pair"
                THEN /\ heap' = [heap EXCEPT ![obj].tail = new_tail]
                     /\ panic' = NoPanic
                ELSE /\ heap' = heap
                     /\ panic' = TypeMismatch
          /\ UNCHANGED <<stack, first_object, num_objects, max_objects,
                         max_size>>]_vars

\* C14 witness: a tail edge has been replaced by a different one, on a Pair
\* that has a registry successor and a head.
SetPairTailFrameWitness ==
    /\ op.name = "set_pair_tail" /\ panic = NoPanic
    /\ \E p \in 1..Len(heap) :
          /\ heap[p].tag = "Pair"
          /\ heap[p].tail > p
          /\ heap[p].head # None /\ heap[p].next # None

\* The registry as a sequence: the cells met from o through the next links,
\* at most n of them.
RECURSIVE RegistryFrom(_, _, _)
RegistryFrom(h, o, n) ==
    IF o = None \/ n = 0
    THEN <<>>
    ELSE <<o>> \o RegistryFrom(h, h[o].next, n - 1)

Registry == RegistryFrom(heap, first_object, Len(heap) + 1)

RegistrySet == {Registry[i] : i \in 1..Len(Registry)}

\* The cell the operation just committed has created, if any.
NewCell ==
    IF IsAlloc(op.name) /\ panic = NoPanic THEN {Len(heap)} ELSE {}

\* C15: after every collection the registry (the list from first_object
\* through next) holds exactly the cells that were reachable when the
\* collection started, every unmarked cell having been unlinked, and the live
\* count is the number of cells in the list.
SweepPostcondition ==
    op.log.completed =>
        /\ RegistrySet \ NewCell = ReachAtStart
        /\ num_objects = Len(Registry)

\* C16: the operands of push_pair survive the collection that push_pair itself
\* forces; in every state between operations no cell reachable from the Root
\* Set is one a sweep has reclaimed.
OperandsSurvive ==
    /\ (op.name = "push_pair" /\ panic = NoPanic /\ op.log.ran) =>
          {heap[Len(heap)].head, heap[Len(heap)].tail} \cap op.log.dropped = {}
    /\ panic = NoPanic =>
          Reachable(heap, stack) \cap reclaimed = {}

\* The mark phase of the running collection has ended and sweep has not yet
\* looked at a cell.
MarkPhaseDone == pc = "sweep" /\ op.log.walked = <<>>

MarkedSet == {o \in 1..Len(heap) : heap[o].marked}

\* C17: at the end of the mark phase, before sweep starts, the marked cells
\* are exactly the cells reachable from the Root Set.
MarkPostcondition ==
    MarkPhaseDone => MarkedSet = Reachable(heap, stack)

\* C17 witness: the mark phase has ended with a Pair and its tail marked, the
\* tail being on the Root Set only through that Pair, and with a cell left
\* unmarked.
MarkPostconditionWitness ==
    /\ MarkPhaseDone
    /\ \E p \in MarkedSet :
          /\ heap[p].tag = "Pair"
          /\ heap[p].tail # heap[p].head
          /\ heap[p].tail \in MarkedSet
          /\ \A i \in 1..Len(stack) : stack[i] # heap[p].tail
    /\ MarkedSet # 1..Len(heap)

\* C18 as stated: a push_int that fails with StackOverflow leaves the Root
\* Set, the registry, the live count and max_objects as they were.
FailedPushIntNoEffect ==
    [][(op'.name = "push_int" /\ panic' = StackOverflow) =>
          UNCHANGED <<stack, heap, first_object, num_objects,
                      max_objects>>]_vars

\* C18: a push_int that fails with StackOverflow leaves the Root Set and the
\* registry as they were; it leaves the live count and max_objects as they
\* were when the live count was below max_objects at the call, and otherwise
\* leaves them as the collection it forced before the push has set them.
FailedPushIntEffect ==
    [][(op'.name = "push_int" /\ panic' = StackOverflow) =>
          /\ UNCHANGED <<stack, heap, first_object>>
          /\ IF num_objects < max_objects
             THEN /\ ~op'.log.ran
                  /\ UNCHANGED <<num_objects, max_objects>>
             ELSE /\ op'.log.completed
                  /\ num_objects' = op'.log.post
                  /\ max_objects' = num_objects' * 2]_vars

\* C18 witness: a push_int has failed with StackOverflow after the collection
\* it forced reclaimed a cell.
FailedPushIntEffectWitness ==
    /\ op.name = "push_int" /\ panic = StackOverflow
    /\ op.log.completed
    /\ op.log.dropped # {}
    /\ Len(stack) = max_size

\* C19: a successful allocation creates a cell with marked = false and next =
\* the previous first_object, makes it first_object and adds one to the live
\* count, leaving every other next link alone; the list from first_object is
\* acyclic, in reverse allocation order, and holds each allocated cell that
\* is not reclaimed exactly once, whatever head and tail edges exist.
RegistryStructure ==
    /\ [][(IsAlloc(op'.name) /\ panic' = NoPanic) =>
            LET new == Len(heap) + 1
            IN  /\ Len(heap') = new
                /\ ~heap'[new].marked
                /\ heap'[new].next = first_object
                /\ first_object' = new
                /\ num_objects' =
                      (IF op'.log.ran THEN op'.log.post ELSE num_objects) + 1
                /\ \A o \in 1..Len(heap) : heap'[o].next = heap[o].next]_vars
    /\ [](LET r == Registry
          IN  /\ Len(r) <= Len(heap)
              /\ \A i \in 1..Len(r), j \in 1..Len(r) : i < j => r[i] > r[j]
              /\ \A o \in (1..Len(heap)) \ reclaimed :
                    Cardinality({i \in 1..Len(r) : r[i] = o}) = 1)

\* C19 witness: an allocation has succeeded after forcing a collection, in a
\* heap of at least three cells where a Pair's tail edge points at the Pair
\* itself or at a cell allocated after it.
RegistryStructureWitness ==
    /\ IsAlloc(op.name) /\ panic = NoPanic
    /\ op.log.ran
    /\ Len(Registry) >= 3
    /\ \E p \in 1..Len(heap) : heap[p].tag = "Pair" /\ heap[p].tail >= p

\* C20: within one collection a call of mark on a cell that is already marked
\* returns at once, changing nothing and visiting no child, and no mark bit
\* goes from false to true more than once: a bit set during the mark phase
\* stays set until sweep, and sweep sets no bit.
MarkIdempotent ==
    /\ [][AtMarkedCall =>
             /\ frames' = Return
             /\ UNCHANGED <<heap, stack, max_size, first_object, max_objects,
                            num_objects, panic, op, last_n, reclaimed,
                            tail_sets, pc, root_i, cur, pre_num>>]_vars
    /\ [][(pc = "mark_all" /\ pc' = "mark_all") =>
             \A o \in 1..Len(heap) : heap[o].marked => heap'[o].marked]_vars
    /\ [][pc = "sweep" =>
             \A o \in 1..Len(heap) : heap'[o].marked => heap[o].marked]_vars

\* C20 witness: mark is called on a marked cell that no pending call of mark
\* is working on: a cell marked as a root, its marking finished, which an edge
\* of a Pair reaches again.
MarkIdempotentWitness ==
    /\ AtMarkedCall
    /\ \A i \in 1..(Len(frames) - 1) : frames[i].obj # Top.obj
    /\ Len(frames) >= 2
    /\ Top.obj \in {stack[i] : i \in 1..Len(stack)}

====
